---- MODULE Spec2Model ----
(***************************************************************************)
(* SuperpositionMemory (src/models/superposition_memory.py): a mapping     *)
(* from hypothesis label to complex amplitude, kept in insertion order,    *)
(* with add / normalise / collapse / as_ranked_list / reset.               *)
(*                                                                         *)
(* Amplitudes are Python complex numbers, i.e. pairs of binary floating    *)
(* point numbers.  The model keeps the arithmetic of the code (every       *)
(* +, *, /, ** 0.5 rounds its exact result to the nearest representable    *)
(* value, ties to even) on a scaled-down format: a value is an integer     *)
(* count of the smallest positive number 2^-FracBits, and it is            *)
(* representable when it has at most Precision significant bits.  This is  *)
(* the shape of an IEEE-754 double (Precision 53, smallest positive number *)
(* 2^-1074, gradual underflow); only the two sizes are smaller.  The       *)
(* inputs are finite and small enough that nothing overflows; NaN and the  *)
(* infinities are outside the model.                                       *)
(***************************************************************************)
EXTENDS Integers, Sequences, FiniteSets

\* ------------------------------------------------------------------ bounds
\* Significant bits of a floating-point number (53 in the program).
Precision == 5
\* The smallest positive floating-point number is 2^-FracBits.
FracBits == 8
\* add() calls between two resets.
MaxAdds == 2
\* add() calls in a run that only adds.
MaxAddSeq == 3
\* A very small amplitude, in units of the smallest positive number.
TinyUnits == 9

RECURSIVE Pow2(_)
Pow2(n) == IF n = 0 THEN 1 ELSE 2 * Pow2(n - 1)

\* The number 1.0 in units of the smallest positive number.
Unit == Pow2(FracBits)

\* 2^Precision: a mantissa is below it.
MantissaLimit == Pow2(Precision)

\* --------------------------------------------------- floating-point numbers
\* The spacing u (a power of two) of the representable numbers around the
\* non-negative rational num/den: the least u with num/den < 2^Precision * u.
RECURSIVE UlpOf(_, _, _)
UlpOf(num, den, u) ==
    IF num < MantissaLimit * den * u THEN u ELSE UlpOf(num, den, 2 * u)

\* num/den (num >= 0, den > 0) rounded to the nearest representable number,
\* ties to the even mantissa.
RoundPos(num, den) ==
    LET u == UlpOf(num, den, 1)
        d == den * u
        m == num \div d
        r == num % d
    IN  (IF 2 * r > d \/ (2 * r = d /\ m % 2 = 1) THEN m + 1 ELSE m) * u

Round(num, den) == IF num < 0 THEN -RoundPos(-num, den) ELSE RoundPos(num, den)

\* float + float
FAdd(a, b) == Round(a + b, 1)
\* float * float
FMul(a, b) == Round(a * b, Unit)
\* float / float, for a positive divisor
FDiv(a, b) == Round(a * Unit, b)

\* t ** 0.5 for t > 0: the square root, rounded to the nearest float.
RECURSIVE SqrtUlp(_, _)
SqrtUlp(x, u) ==
    IF x < MantissaLimit * MantissaLimit * u * u THEN u ELSE SqrtUlp(x, 2 * u)

FSqrt(t) ==
    LET x == t * Unit
        u == SqrtUlp(x, 1)
        y == x \div (u * u)
        m == CHOOSE k \in 0..MantissaLimit : k * k <= y /\ y < (k + 1) * (k + 1)
    IN  (IF 4 * x > (2 * m + 1) * (2 * m + 1) * u * u THEN m + 1 ELSE m) * u

\* ------------------------------------------------------------- complex type
Complex(r, i) == [re |-> r, im |-> i]

\* complex + complex
CAdd(a, b) == Complex(FAdd(a.re, b.re), FAdd(a.im, b.im))

\* complex / float: the divisor has no imaginary part, so the quotient is
\* taken component by component.
CDivReal(a, s) == Complex(FDiv(a.re, s), FDiv(a.im, s))

\* (amp.conjugate() * amp).real = re*re - (-im)*im
probability(amplitude) ==
    FAdd(FMul(amplitude.re, amplitude.re), FMul(amplitude.im, amplitude.im))

Hypothesis(l, a) == [label |-> l, amplitude |-> a]

\* ------------------------------------------------------------------ inputs
Labels == {"A", "B"}

Amps ==
    { Complex(0, 0), Complex(5 * Unit, 0), Complex(-5 * Unit, 0),
      Complex(4 * Unit, 3 * Unit), Complex(TinyUnits, 0) }

Pair(l, w) == [label |-> l, weight |-> w]

\* Contexts handed to collapse: empty, all weights zero, a boost of B with a
\* label the memory never holds, and A given twice (boosted, then penalised).
Contexts ==
    { << >>,
      << Pair("A", 0), Pair("B", 0) >>,
      << Pair("Z", 2 * Unit), Pair("B", 2 * Unit) >>,
      << Pair("A", 2 * Unit), Pair("A", -2 * Unit) >> }

\* ------------------------------------------------------------------- state
VARIABLES
    hypotheses,   \* self.hypotheses: the dict, as its items in insertion order
    log,          \* the add() calls since construction or reset, while no
                  \* normalise() has rescaled the amplitudes
    pure,         \* no successful normalise() since construction or reset
    nadds,        \* add() calls since construction or reset
    op,           \* the last call
    arg,          \* its context argument (collapse)
    prev,         \* self.hypotheses as the last call found it
    ret           \* what the last call returned, or that it raised

vars == << hypotheses, log, pure, nadds, op, arg, prev, ret >>

NoResult == [err |-> FALSE, val |-> << >>]
Raised == [err |-> TRUE, val |-> << >>]
Returned(v) == [err |-> FALSE, val |-> v]

\* The labels of a dict or of a list of hypotheses, in order.
LabelsOf(h) == [i \in 1..Len(h) |-> h[i].label]

Has(h, l) == \E i \in 1..Len(h) : h[i].label = l

IndexOf(h, l) == CHOOSE i \in 1..Len(h) : h[i].label = l

\* ------------------------------------------------------------- __init__
InitHypotheses == << >>

\* --------------------------------------------------------------------- add
\* A faulty add: a repeated label replaces the stored amplitude.
add_overwrite(h, l, amplitude) ==
    IF Has(h, l)
    THEN [h EXCEPT ![IndexOf(h, l)].amplitude = amplitude]
    ELSE Append(h, Hypothesis(l, amplitude))

add(h, l, amplitude) ==
    IF Has(h, l)
    THEN [h EXCEPT ![IndexOf(h, l)].amplitude = CAdd(@, amplitude)]
    ELSE Append(h, Hypothesis(l, amplitude))

\* --------------------------------------------------------------- normalise
\* sum(...) over the values, left to right, starting from 0, every partial
\* sum rounded (the plain float loop of sum(); an interpreter that sums with
\* compensation differs only where a partial sum is rounded).
RECURSIVE SumProbabilities(_, _)
SumProbabilities(h, n) ==
    IF n = 0 THEN 0
    ELSE FAdd(SumProbabilities(h, n - 1), probability(h[n].amplitude))

total_probability(h) == SumProbabilities(h, Len(h))

normalise_raises(h) == total_probability(h) = 0

scale(h) == FSqrt(total_probability(h))

\* A faulty normalise: entries whose amplitude is zero are dropped.
normalise_dropping_zero(h) ==
    LET s == scale(h)
        kept == SelectSeq(h, LAMBDA e : e.amplitude # Complex(0, 0))
    IN  [i \in 1..Len(kept) |->
            Hypothesis(kept[i].label, CDivReal(kept[i].amplitude, s))]

normalise(h) ==
    LET s == scale(h)
    IN  [i \in 1..Len(h) |-> Hypothesis(h[i].label, CDivReal(h[i].amplitude, s))]

\* ---------------------------------------------------------------- sorting
\* list.sort(key=..., reverse=True) on a list of [key, item]: descending by
\* key, and stable (items with equal keys keep their order).
RECURSIVE InsertDesc(_, _)
InsertDesc(sorted, x) ==
    IF sorted = << >> THEN << x >>
    ELSE IF Head(sorted).key >= x.key
         THEN << Head(sorted) >> \o InsertDesc(Tail(sorted), x)
         ELSE << x >> \o sorted

RECURSIVE SortDesc(_, _)
SortDesc(s, n) ==
    IF n = 0 THEN << >> ELSE InsertDesc(SortDesc(s, n - 1), s[n])

Reverse(s) == [i \in 1..Len(s) |-> s[Len(s) + 1 - i]]

\* A faulty sort_reverse: ascending sort, then reversed, which also reverses
\* the items with equal keys.
sort_then_reverse(s) == SortDesc(Reverse(s), Len(s))

sort_reverse(s) == SortDesc(s, Len(s))

\* ---------------------------------------------------------------- collapse
\* A faulty collapse_raises: the test normalise makes.
collapse_raises_on_zero_mass(h) == total_probability(h) = 0

collapse_raises(h) == h = << >>

\* weight_map = {label: weight for label, weight in context}; .get(l, 0.0):
\* a label given twice keeps its last weight.
RECURSIVE WeightGet(_, _, _)
WeightGet(context, n, l) ==
    IF n = 0 THEN 0
    ELSE IF context[n].label = l THEN context[n].weight
         ELSE WeightGet(context, n - 1, l)

weight_map(context, l) == WeightGet(context, Len(context), l)

\* A faulty score: probability * weight.
score_without_one(hyp, context) ==
    FMul(probability(hyp.amplitude), weight_map(context, hyp.label))

score(hyp, context) ==
    FMul(probability(hyp.amplitude), FAdd(Unit, weight_map(context, hyp.label)))

scored(h, context) ==
    [i \in 1..Len(h) |-> [key |-> score(h[i], context), item |-> h[i]]]

collapse(h, context) == sort_reverse(scored(h, context))[1].item

\* ---------------------------------------------------------- as_ranked_list
\* A faulty as_ranked_list: reverse=True forgotten.
as_ranked_list_ascending(h) ==
    LET ranked == Reverse(sort_reverse([i \in 1..Len(h) |->
                      [key |-> probability(h[i].amplitude), item |-> h[i]]]))
    IN  [i \in 1..Len(h) |-> ranked[i].item]

as_ranked_list(h) ==
    LET ranked == sort_reverse([i \in 1..Len(h) |->
                      [key |-> probability(h[i].amplitude), item |-> h[i]]])
    IN  [i \in 1..Len(h) |-> ranked[i].item]

\* ------------------------------------------------------------------- reset
\* A faulty reset: the amplitudes are zeroed, the labels stay.
reset_keeps_labels(h) ==
    [i \in 1..Len(h) |-> Hypothesis(h[i].label, Complex(0, 0))]

reset(h) == << >>

\* ----------------------------------------------------------------- actions
Init ==
    /\ hypotheses = InitHypotheses
    /\ log = << >>
    /\ pure = TRUE
    /\ nadds = 0
    /\ op = "init"
    /\ arg = << >>
    /\ prev = << >>
    /\ ret = NoResult

AddCall(l, amplitude, limit) ==
    /\ nadds < limit
    /\ hypotheses' = add(hypotheses, l, amplitude)
    /\ log' = IF pure THEN Append(log, Hypothesis(l, amplitude)) ELSE log
    /\ nadds' = nadds + 1
    /\ op' = "add"
    /\ arg' = << >>
    /\ prev' = hypotheses
    /\ ret' = NoResult
    /\ UNCHANGED pure

Add(l, amplitude) == AddCall(l, amplitude, MaxAdds)

Normalise ==
    /\ op' = "normalise"
    /\ arg' = << >>
    /\ prev' = hypotheses
    /\ IF normalise_raises(hypotheses)
       THEN /\ ret' = Raised
            /\ UNCHANGED << hypotheses, log, pure >>
       ELSE /\ ret' = NoResult
            /\ hypotheses' = normalise(hypotheses)
            /\ log' = << >>
            /\ pure' = FALSE
    /\ UNCHANGED nadds

\* A faulty Collapse: the memory is reduced to the winner.
CollapsePruning(context) ==
    /\ op' = "collapse"
    /\ arg' = context
    /\ prev' = hypotheses
    /\ IF collapse_raises(hypotheses)
       THEN ret' = Raised /\ UNCHANGED hypotheses
       ELSE /\ ret' = Returned(<< collapse(hypotheses, context) >>)
            /\ hypotheses' = << collapse(hypotheses, context) >>
    /\ UNCHANGED << log, pure, nadds >>

Collapse(context) ==
    /\ op' = "collapse"
    /\ arg' = context
    /\ prev' = hypotheses
    /\ ret' = IF collapse_raises(hypotheses) THEN Raised
              ELSE Returned(<< collapse(hypotheses, context) >>)
    /\ UNCHANGED << hypotheses, log, pure, nadds >>

AsRankedList ==
    /\ op' = "as_ranked_list"
    /\ arg' = << >>
    /\ prev' = hypotheses
    /\ ret' = Returned(as_ranked_list(hypotheses))
    /\ UNCHANGED << hypotheses, log, pure, nadds >>

Reset ==
    /\ op' = "reset"
    /\ arg' = << >>
    /\ prev' = hypotheses
    /\ ret' = NoResult
    /\ hypotheses' = reset(hypotheses)
    /\ log' = << >>
    /\ pure' = TRUE
    /\ nadds' = 0

Next ==
    \/ \E l \in Labels, amplitude \in Amps : Add(l, amplitude)
    \/ Normalise
    \/ \E context \in Contexts : Collapse(context)
    \/ AsRankedList
    \/ Reset

Spec == Init /\ [][Next]_vars

\* A new instance on which only add() is called.
AddNext == \E l \in Labels, amplitude \in Amps : AddCall(l, amplitude, MaxAddSeq)

AddSpec == Init /\ [][AddNext]_vars

\* ================================================================== claims
\* What the formulas below speak about.

\* The amplitudes supplied for label l by the logged add() calls, in call order.
Supplied(l) == SelectSeq(log, LAMBDA e : e.label = l)

\* Floating-point sum of the amplitudes of s, first to last, along the order p.
RECURSIVE SumAlong(_, _, _)
SumAlong(s, p, n) ==
    IF n = 1 THEN s[p[1]].amplitude
    ELSE CAdd(SumAlong(s, p, n - 1), s[p[n]].amplitude)

Identity(n) == [i \in 1..n |-> i]

Permutations(n) ==
    { p \in [1..n -> 1..n] : \A i, j \in 1..n : p[i] = p[j] => i = j }

\* The stored amplitude of label l.
Stored(l) == hypotheses[IndexOf(hypotheses, l)].amplitude

Occurrences(h, l) == Cardinality({ i \in 1..Len(h) : h[i].label = l })

\* The weight a context gives a label: that of the last pair naming it, 0
\* when no pair names it.
ContextWeight(context, l) ==
    LET named == { i \in 1..Len(context) : context[i].label = l }
    IN  IF named = {} THEN 0
        ELSE context[CHOOSE i \in named : \A j \in named : j <= i].weight

\* probability * (1 + weight)
ContextScore(hyp, context) ==
    FMul(probability(hyp.amplitude), FAdd(Unit, ContextWeight(context, hyp.label)))

Neutral(context) == \A i \in 1..Len(context) : context[i].weight = 0

AllZero(h) == \A i \in 1..Len(h) : h[i].amplitude = Complex(0, 0)

\* The exact sum of the probabilities of the stored hypotheses.
RECURSIVE Mass(_, _)
Mass(h, n) == IF n = 0 THEN 0 ELSE Mass(h, n - 1) + probability(h[n].amplitude)

\* Two units in the last place of 1.0.
Tolerance == Unit \div Pow2(Precision - 2)

\* The dict a new instance holds after the add() calls of s.
RECURSIVE Replay(_, _)
Replay(s, n) ==
    IF n = 0 THEN InitHypotheses
    ELSE add(Replay(s, n - 1), s[n].label, s[n].amplitude)

\* ---------------------------------------------------------------------- C1
\* C1 (as amended): after add() calls only, every added label is stored
\* exactly once, its amplitude is the floating-point sum of the amplitudes
\* supplied for it, accumulated in call order, and a label never added is
\* absent.
C1_SumInCallOrder ==
    pure =>
        \A l \in Labels :
            /\ Has(hypotheses, l) <=> Supplied(l) # << >>
            /\ Has(hypotheses, l) =>
                  /\ Occurrences(hypotheses, l) = 1
                  /\ Stored(l) = SumAlong(Supplied(l), Identity(Len(Supplied(l))),
                                          Len(Supplied(l)))

\* C1 (as claimed): the stored amplitude is the sum of the supplied
\* amplitudes whatever the order of the calls: summing them in any other
\* order gives the stored amplitude too.
C1_SumInAnyOrder ==
    pure =>
        \A l \in Labels :
            /\ Has(hypotheses, l) <=> Supplied(l) # << >>
            /\ Has(hypotheses, l) =>
                  /\ Occurrences(hypotheses, l) = 1
                  /\ \A p \in Permutations(Len(Supplied(l))) :
                        Stored(l) = SumAlong(Supplied(l), p, Len(Supplied(l)))

\* Two labels added in turn, one of them twice, with non-zero amplitudes, and
\* the sum of the two was rounded.
C1_Witness ==
    /\ pure
    /\ op = "add"
    /\ Len(log) = 3
    /\ log[1].label = log[3].label
    /\ log[2].label # log[1].label
    /\ \A i \in 1..3 : log[i].amplitude # Complex(0, 0)
    /\ Stored(log[1].label).re # log[1].amplitude.re + log[3].amplitude.re

\* ---------------------------------------------------------------------- C2
\* C2: on a non-empty memory collapse(context) returns a stored hypothesis,
\* with its stored amplitude, whose score probability * (1 + weight) no
\* stored hypothesis exceeds, and every hypothesis inserted before it has a
\* strictly smaller score.
C2_CollapseFirstMaxScore ==
    (op = "collapse" /\ prev # << >>) =>
        /\ ~ret.err
        /\ Len(ret.val) = 1
        /\ \E i \in 1..Len(prev) :
              /\ ret.val[1] = prev[i]
              /\ \A j \in 1..Len(prev) :
                    ContextScore(prev[j], arg) <= ContextScore(prev[i], arg)
              /\ \A j \in 1..(i - 1) :
                    ContextScore(prev[j], arg) < ContextScore(prev[i], arg)

\* A context that names a label the memory does not hold lets the second
\* hypothesis overtake the first, which has at least its probability.
C2_Witness ==
    /\ op = "collapse"
    /\ Len(prev) = 2
    /\ \E i \in 1..Len(arg) : ~Has(prev, arg[i].label)
    /\ probability(prev[1].amplitude) >= probability(prev[2].amplitude)
    /\ probability(prev[2].amplitude) > 0
    /\ ret.val = << prev[2] >>

\* ---------------------------------------------------------------------- C3
\* C3: collapse(context) and as_ranked_list() leave the mapping as they
\* found it (labels, amplitudes, insertion order), whether they return or
\* raise.
C3_QueriesReadOnly ==
    op \in {"collapse", "as_ranked_list"} => hypotheses = prev

\* collapse returned one of two un-normalised hypotheses.
C3_Witness ==
    /\ op = "collapse"
    /\ Len(prev) = 2
    /\ ~ret.err
    /\ Mass(prev, 2) # Unit
    /\ Len(hypotheses) = 2

\* ---------------------------------------------------------------------- C4
\* C4: normalise() raises exactly when the memory is empty or every stored
\* amplitude is exactly zero, and then leaves the mapping unchanged.
C4_NormaliseRaisesIffAllZero ==
    op = "normalise" =>
        /\ ret.err <=> AllZero(prev)
        /\ ret.err => hypotheses = prev

\* ---------------------------------------------------------------------- C5
\* C5: collapse(context) raises if and only if the memory holds no
\* hypothesis; otherwise it returns a stored hypothesis.
C5_CollapseRaisesIffEmpty ==
    op = "collapse" =>
        /\ ret.err <=> prev = << >>
        /\ ~ret.err => \E i \in 1..Len(prev) : ret.val = << prev[i] >>

\* collapse succeeded on a non-empty memory of zero amplitudes, on which
\* normalise raises.
C5_Witness ==
    /\ op = "collapse"
    /\ prev # << >>
    /\ AllZero(prev)
    /\ normalise_raises(prev)
    /\ ~ret.err

\* ---------------------------------------------------------------------- C6
\* C6: as_ranked_list() never raises and returns one hypothesis per stored
\* label, with the stored amplitude, in non-increasing order of probability,
\* hypotheses of equal probability in insertion order.
C6_RankedList ==
    op = "as_ranked_list" =>
        /\ ~ret.err
        /\ Len(ret.val) = Len(prev)
        /\ \A i \in 1..Len(prev) :
              Cardinality({ k \in 1..Len(ret.val) : ret.val[k] = prev[i] }) = 1
        /\ \A i, j \in 1..Len(ret.val) :
              i < j =>
                 /\ probability(ret.val[i].amplitude) >= probability(ret.val[j].amplitude)
                 /\ probability(ret.val[i].amplitude) = probability(ret.val[j].amplitude)
                       => IndexOf(prev, ret.val[i].label) < IndexOf(prev, ret.val[j].label)

\* Two hypotheses of equal, non-zero probability and different amplitudes.
C6_Witness ==
    /\ op = "as_ranked_list"
    /\ Len(prev) = 2
    /\ prev[1].amplitude # prev[2].amplitude
    /\ probability(prev[1].amplitude) = probability(prev[2].amplitude)
    /\ probability(prev[1].amplitude) > 0
    /\ ret.val = prev

\* ---------------------------------------------------------------------- C7
\* C7: reset() never raises and leaves the mapping of a new instance; until
\* the next add, collapse and normalise raise and as_ranked_list returns the
\* empty list; the add() calls that follow give the state they give on a new
\* instance.
C7_ResetGivesNewInstance ==
    /\ op = "reset" => (~ret.err /\ hypotheses = InitHypotheses)
    /\ (nadds = 0 /\ op \in {"collapse", "normalise"}) => ret.err
    /\ (nadds = 0 /\ op = "as_ranked_list") => ret = Returned(<< >>)
    /\ pure => hypotheses = Replay(log, Len(log))

\* reset() on a memory of two hypotheses that had been normalised.
C7_Witness ==
    /\ op = "reset"
    /\ Len(prev) = 2
    /\ ~normalise_raises(prev)
    /\ prev = normalise(prev)
    /\ hypotheses = << >>

\* ---------------------------------------------------------------------- C8
\* C8: a normalise() that does not raise keeps the labels, divides every
\* amplitude by the square root of the former total probability mass, and
\* leaves a total probability mass of 1 within the tolerance.
C8_NormaliseGivesUnitMass ==
    (op = "normalise" /\ ~ret.err) =>
        /\ LabelsOf(hypotheses) = LabelsOf(prev)
        /\ \A i \in 1..Len(prev) :
              hypotheses[i].amplitude =
                  CDivReal(prev[i].amplitude, FSqrt(total_probability(prev)))
        /\ Mass(hypotheses, Len(hypotheses)) - Unit <= Tolerance
        /\ Unit - Mass(hypotheses, Len(hypotheses)) <= Tolerance

\* ---------------------------------------------------------------------- C9
\* C9: with a context that is empty or gives only zero weights, collapse on
\* a non-empty memory returns a hypothesis of the highest probability, the
\* first element of as_ranked_list() in that state.
C9_NeutralCollapseIsTopRanked ==
    (op = "collapse" /\ prev # << >> /\ Neutral(arg)) =>
        /\ ret.val = << as_ranked_list(prev)[1] >>
        /\ \A j \in 1..Len(prev) :
              probability(prev[j].amplitude) <= probability(ret.val[1].amplitude)

\* All-zero weights, and the second hypothesis has the higher probability.
C9_Witness ==
    /\ op = "collapse"
    /\ arg # << >>
    /\ Neutral(arg)
    /\ Len(prev) = 2
    /\ probability(prev[1].amplitude) < probability(prev[2].amplitude)
    /\ ret.val = << prev[2] >>

\* --------------------------------------------------------------------- C10
\* C10 (as amended): a normalise() that does not raise keeps the labels and
\* their insertion order, so collapse(context) still returns one of the same
\* labels and as_ranked_list() still lists exactly the same labels.
C10_NormaliseKeepsLabels ==
    (op = "normalise" /\ ~ret.err) =>
        /\ LabelsOf(hypotheses) = LabelsOf(prev)
        /\ \A context \in Contexts : Has(prev, collapse(hypotheses, context).label)
        /\ Len(as_ranked_list(hypotheses)) = Len(as_ranked_list(prev))
        /\ \A i \in 1..Len(prev) : Has(as_ranked_list(hypotheses), prev[i].label)

\* C10 (as claimed): for every context, collapse(context) returns the same
\* label, and as_ranked_list() the same sequence of labels, right before and
\* right after a normalise() that does not raise.
C10_NormaliseKeepsOutcome ==
    (op = "normalise" /\ ~ret.err) =>
        /\ \A context \in Contexts :
              collapse(hypotheses, context).label = collapse(prev, context).label
        /\ LabelsOf(as_ranked_list(hypotheses)) = LabelsOf(as_ranked_list(prev))

\* normalise() rescaled two hypotheses, one of them of zero amplitude.
C10_Witness ==
    /\ op = "normalise"
    /\ ~ret.err
    /\ Len(prev) = 2
    /\ hypotheses # prev
    /\ \E i \in 1..2 : prev[i].amplitude = Complex(0, 0)

====
